---------------------------- MODULE Spec2Model ----------------------------
(***************************************************************************)
(* Model of package option (types/option/option.go): the value-or-         *)
(* reference options String and Int, their Validate and ToApplicableValue  *)
(* methods, the reference type ValueFrom and the two lookup helpers.        *)
(*                                                                         *)
(* Conventions.  A Go pointer is a sequence of length at most one: <<>> is *)
(* nil and <<x>> points to x.  A Go string that is only compared is a TLA+ *)
(* string; a Go string whose characters are read (a ConfigMap value, a     *)
(* String literal) is a sequence of one-character strings.  A Go map is a  *)
(* function whose DOMAIN is the set of present keys.  An error is a record *)
(* holding the format string and its arguments; the nil error is NoError.  *)
(* A call's outcome is a record [val, err, panic]: panic # "" means the    *)
(* call did not return.                                                    *)
(***************************************************************************)
EXTENDS Integers, Sequences, FiniteSets, TLC

VARIABLES opt, dr, validated, ret

vars == <<opt, dr, validated, ret>>

---------------------------------------------------------------------------
(* Go's int.  Its width is 32 or 64 bits by platform; the model takes the  *)
(* 32-bit build, whose range boundary lies inside TLC's integers.          *)
IntSize == 32

RECURSIVE Pow2(_)
Pow2(n) == IF n = 0 THEN 1 ELSE 2 * Pow2(n - 1)

MaxInt == (Pow2(IntSize - 2) - 1) * 2 + 1

MinInt == (-MaxInt) - 1

---------------------------------------------------------------------------
(* Errors.                                                                 *)
NoError == [msg |-> "", args |-> <<>>]

IsNil(e) == e.msg = ""

errValidationNoValueOrRef ==
    [msg |-> "neither value reference nor concrete value provided", args |-> <<>>]

errValidationBothValueAndRef ==
    [msg |-> "both value reference and concrete value provided", args |-> <<>>]

Returned(v, e) == [val |-> v, err |-> e, panic |-> ""]

Panicked(m) == [val |-> <<>>, err |-> NoError, panic |-> m]

---------------------------------------------------------------------------
(* ValueFromConfigMap, ValueFromSecret, ValueFromKrakenResource, ValueFrom *)

ToConfigMapDependency(vfcm) == [Name |-> vfcm.Name, Key |-> vfcm.Key]

ValueFromConfigMap_Validate(vfcm) ==
    IF vfcm.Name = "" THEN [msg |-> "ConfigMap name cannot be empty", args |-> <<>>]
    ELSE IF vfcm.Key = "" THEN [msg |-> "ConfigMap key cannot be empty", args |-> <<>>]
    ELSE NoError

ToSecretDependency(vfs) == Panicked("Not implemented")

(* Mutant: the caller's kind is dropped for a fixed one.                   *)
ToKrakenResourceDependency_FixedKind(vfkr, kind) ==
    [Kind |-> vfkr.Kind, Name |-> vfkr.Name, Path |-> vfkr.Path, ReflectKind |-> "string"]

ToKrakenResourceDependency(vfkr, kind) ==
    [Kind |-> vfkr.Kind, Name |-> vfkr.Name, Path |-> vfkr.Path, ReflectKind |-> kind]

(* The appends are made through the pointer dr before the Secret check, so *)
(* they are visible to the caller also when the call panics.               *)
AddToDependencyRequestSpec(vf, d, kind) ==
    LET d1 == IF vf.KrakenResource # <<>>
              THEN [d EXCEPT !.KrakenResourceDependencies =
                       Append(@, ToKrakenResourceDependency(vf.KrakenResource[1], kind))]
              ELSE d
        d2 == IF vf.ConfigMap # <<>>
              THEN [d1 EXCEPT !.ConfigMapDependencies =
                       Append(@, ToConfigMapDependency(vf.ConfigMap[1]))]
              ELSE d1
    IN  [dr |-> d2, panic |-> IF vf.Secret # <<>> THEN "Unimplemented" ELSE ""]

(* Mutant: the Secret variant is not counted.                              *)
nonNilCount_NoSecret(vf) ==
    LET c1 == IF vf.ConfigMap # <<>> THEN 1 ELSE 0
        c3 == IF vf.KrakenResource # <<>> THEN c1 + 1 ELSE c1
    IN  c3

nonNilCount(vf) ==
    LET c1 == IF vf.ConfigMap # <<>> THEN 1 ELSE 0
        c2 == IF vf.Secret # <<>> THEN c1 + 1 ELSE c1
        c3 == IF vf.KrakenResource # <<>> THEN c2 + 1 ELSE c2
    IN  c3

ValueFrom_Validate(vf) ==
    IF nonNilCount(vf) # 1
    THEN [msg |-> "expected a single value reference but received %d",
          args |-> <<nonNilCount(vf)>>]
    ELSE NoError

---------------------------------------------------------------------------
(* String.Validate and Int.Validate                                        *)

(* Mutant: an option with neither literal nor reference is accepted.       *)
String_Validate_AllowsNeither(s) ==
    IF s.Value # <<>>
    THEN IF s.ValueFrom # <<>> THEN errValidationBothValueAndRef ELSE NoError
    ELSE IF s.ValueFrom = <<>> THEN NoError
    ELSE ValueFrom_Validate(s.ValueFrom[1])

String_Validate(s) ==
    IF s.Value # <<>>
    THEN IF s.ValueFrom # <<>> THEN errValidationBothValueAndRef ELSE NoError
    ELSE IF s.ValueFrom = <<>> THEN errValidationNoValueOrRef
    ELSE ValueFrom_Validate(s.ValueFrom[1])

Int_Validate(i) ==
    IF i.Value # <<>>
    THEN IF i.ValueFrom # <<>> THEN errValidationBothValueAndRef ELSE NoError
    ELSE IF i.ValueFrom = <<>> THEN errValidationNoValueOrRef
    ELSE ValueFrom_Validate(i.ValueFrom[1])

---------------------------------------------------------------------------
(* getValueFromConfigMap                                                   *)

(* Mutant: a missing key is reported as a missing name.                    *)
getValueFromConfigMap_OneError(cmRef, cmVals) ==
    IF cmRef.Name \notin DOMAIN cmVals \/ cmRef.Key \notin DOMAIN cmVals[cmRef.Name]
    THEN Returned(<<>>, [msg |-> "ConfigMap %s does not exist in DependentValues",
                         args |-> <<cmRef.Name>>])
    ELSE Returned(<<cmVals[cmRef.Name][cmRef.Key]>>, NoError)

getValueFromConfigMap(cmRef, cmVals) ==
    IF cmRef.Name \notin DOMAIN cmVals
    THEN Returned(<<>>, [msg |-> "ConfigMap %s does not exist in DependentValues",
                         args |-> <<cmRef.Name>>])
    ELSE LET cm == cmVals[cmRef.Name] IN
         IF cmRef.Key \notin DOMAIN cm
         THEN Returned(<<>>,
                  [msg |-> "key %s does not exist in DependentValues ConfigMap %s",
                   args |-> <<cmRef.Key, cmRef.Name>>])
         ELSE Returned(<<cm[cmRef.Key]>>, NoError)

---------------------------------------------------------------------------
(* strconv.Atoi, as called by Int.ToApplicableValue                        *)

Digits == {"0", "1", "2", "3", "4", "5", "6", "7", "8", "9"}

DigitVal(c) ==
    CASE c = "0" -> 0 [] c = "1" -> 1 [] c = "2" -> 2 [] c = "3" -> 3
      [] c = "4" -> 4 [] c = "5" -> 5 [] c = "6" -> 6 [] c = "7" -> 7
      [] c = "8" -> 8 [] c = "9" -> 9

ErrSyntax(s) == [msg |-> "strconv.Atoi: parsing %q: invalid syntax", args |-> <<s>>]

ErrRange(s) == [msg |-> "strconv.Atoi: parsing %q: value out of range", args |-> <<s>>]

(* The loop n = n*10 + d over a string of digits.                          *)
RECURSIVE AtoiLoop(_, _, _)
AtoiLoop(s, i, n) ==
    IF i > Len(s) THEN n ELSE AtoiLoop(s, i + 1, n * 10 + DigitVal(s[i]))

(* Fast path: strings short enough to fit int need no range check.         *)
AtoiFast(s0) ==
    LET s == IF s0[1] \in {"-", "+"} THEN Tail(s0) ELSE s0 IN
    IF Len(s) < 1 THEN [n |-> 0, err |-> ErrSyntax(s0)]
    ELSE IF \E i \in 1..Len(s) : s[i] \notin Digits
    THEN [n |-> 0, err |-> ErrSyntax(s0)]
    ELSE LET n == AtoiLoop(s, 1, 0) IN
         [n |-> IF s0[1] = "-" THEN -n ELSE n, err |-> NoError]

(* strconv.ParseUint(s, 10, IntSize).  The unsigned accumulator may exceed *)
(* MaxInt: cls says whether n is the exact value, the value is MaxInt + 1  *)
(* ("cutoff"), lies above it up to 2*MaxInt + 1 ("above"), or a digit made *)
(* it exceed 2*MaxInt + 1 ("range": returned at once, before later         *)
(* characters are looked at).                                              *)
RECURSIVE ParseUint(_, _, _)
ParseUint(s, i, acc) ==
    IF i > Len(s) THEN acc
    ELSE IF s[i] \notin Digits THEN [cls |-> "syntax", n |-> 0]
    ELSE LET d == DigitVal(s[i]) IN
         IF acc.cls # "exact" THEN [cls |-> "range", n |-> 0]
         ELSE IF acc.n <= (MaxInt - d) \div 10
         THEN ParseUint(s, i + 1, [cls |-> "exact", n |-> acc.n * 10 + d])
         ELSE IF acc.n = MaxInt \div 10 /\ d = (MaxInt % 10) + 1
         THEN ParseUint(s, i + 1, [cls |-> "cutoff", n |-> 0])
         ELSE IF acc.n < MaxInt \div 5
                 \/ (acc.n = MaxInt \div 5 /\ d <= 2 * (MaxInt % 5) + 1)
         THEN ParseUint(s, i + 1, [cls |-> "above", n |-> 0])
         ELSE [cls |-> "range", n |-> 0]

(* strconv.ParseInt(s, 10, 0)                                              *)
ParseInt(s0) ==
    IF Len(s0) = 0 THEN [n |-> 0, err |-> ErrSyntax(s0)]
    ELSE LET neg == s0[1] = "-"
             s == IF s0[1] \in {"-", "+"} THEN Tail(s0) ELSE s0
             un == IF Len(s) = 0 THEN [cls |-> "syntax", n |-> 0]
                   ELSE ParseUint(s, 1, [cls |-> "exact", n |-> 0])
         IN  CASE un.cls = "syntax" -> [n |-> 0, err |-> ErrSyntax(s0)]
               [] un.cls = "exact" ->
                    [n |-> IF neg THEN -un.n ELSE un.n, err |-> NoError]
               [] un.cls = "cutoff" /\ neg -> [n |-> MinInt, err |-> NoError]
               [] OTHER ->
                    [n |-> IF neg THEN MinInt ELSE MaxInt, err |-> ErrRange(s0)]

AtoiFastMaxLen == IF IntSize = 32 THEN 9 ELSE 18

Atoi(s) ==
    IF 0 < Len(s) /\ Len(s) <= AtoiFastMaxLen THEN AtoiFast(s) ELSE ParseInt(s)

---------------------------------------------------------------------------
(* gabs.ParseJSON and Container.Data, as called by getValueFromKrakenResource. *)
(* A raw payload is the JSON text it holds, given by its top-level token:  *)
(* tok is one of "string", "number", "true", "false", "list", "map",       *)
(* "null", or "invalid" for bytes that are no JSON text.  A number token   *)
(* is the decimal m * 10^e.  The parsed data carries its Go dynamic type.  *)

RECURSIVE NumDigits(_)
NumDigits(n) == IF n < 10 THEN 1 ELSE 1 + NumDigits(n \div 10)

Abs(n) == IF n < 0 THEN -n ELSE n

(* The largest decimal exponent of a finite float64 (1.797e308).           *)
MaxFloat64Exp10 == 308

(* strconv.ParseFloat reports a range error for a decimal beyond float64.  *)
Float64Overflows(m, e) == m # 0 /\ e + NumDigits(Abs(m)) - 1 > MaxFloat64Exp10

ParseJSON(raw) ==
    CASE raw.tok = "invalid" ->
            [err |-> [msg |-> "invalid character", args |-> <<>>],
             data |-> [type |-> "nil"]]
      [] raw.tok = "number" ->
            IF Float64Overflows(raw.m, raw.e)
            THEN [err |-> [msg |-> "json: cannot unmarshal number into Go value",
                           args |-> <<>>],
                  data |-> [type |-> "nil"]]
            ELSE [err |-> NoError, data |-> [type |-> "float64", m |-> raw.m, e |-> raw.e]]
      [] raw.tok = "string" -> [err |-> NoError, data |-> [type |-> "string", s |-> raw.s]]
      [] raw.tok = "true" -> [err |-> NoError, data |-> [type |-> "bool", b |-> TRUE]]
      [] raw.tok = "false" -> [err |-> NoError, data |-> [type |-> "bool", b |-> FALSE]]
      [] raw.tok = "list" -> [err |-> NoError, data |-> [type |-> "slice"]]
      [] raw.tok = "map" -> [err |-> NoError, data |-> [type |-> "map"]]
      [] raw.tok = "null" -> [err |-> NoError, data |-> [type |-> "nil"]]

---------------------------------------------------------------------------
(* getValueFromKrakenResource[T], T given by the name of its type          *)

(* reflect.TypeOf(val).Kind() of the zero value of T.                      *)
expectedType(T) == T

(* data.(T), reached only when the kinds agree: the string's characters,   *)
(* or the float64 m * 10^e.                                                *)
TypeAssert(T, data) ==
    IF T = "string" THEN data.s ELSE [m |-> data.m, e |-> data.e]

getValueFromKrakenResource(T, krRef, krVals) ==
    IF krRef.Kind \notin DOMAIN krVals
    THEN Returned(<<>>, [msg |-> "no entry for kind %s in DependentValues",
                         args |-> <<krRef.Kind>>])
    ELSE LET kind == krVals[krRef.Kind] IN
    IF krRef.Name \notin DOMAIN kind
    THEN Returned(<<>>, [msg |-> "no entry for resource %s in DependentValues",
                         args |-> <<krRef.Name>>])
    ELSE LET resource == kind[krRef.Name] IN
    IF krRef.Path \notin DOMAIN resource
    THEN Returned(<<>>, [msg |-> "no entry for path %s in DependentValues",
                         args |-> <<krRef.Path>>])
    ELSE LET parsed == ParseJSON(resource[krRef.Path]) IN
    IF ~IsNil(parsed.err)
    THEN Returned(<<>>, [msg |-> "error parsing JSON: %s", args |-> <<parsed.err.msg>>])
    ELSE LET data == parsed.data IN
    (* reflect.TypeOf(nil) is the nil Type; calling Kind() on it panics.   *)
    IF data.type = "nil"
    THEN Panicked("invalid memory address or nil pointer dereference")
    ELSE IF data.type # expectedType(T)
    THEN Returned(<<>>, [msg |-> "provided value %s is of type %s; expected type %s",
                         args |-> <<data, data.type, expectedType(T)>>])
    ELSE Returned(<<TypeAssert(T, data)>>, NoError)

---------------------------------------------------------------------------
(* The conversion int(f) of a float64 f = m * 10^e                         *)

RECURSIVE Pow10(_)
Pow10(n) == IF n = 0 THEN 1 ELSE 10 * Pow10(n - 1)

(* Go's integer division, truncated toward zero.                           *)
Quo(a, b) == IF a < 0 THEN -((-a) \div b) ELSE a \div b

(* Whether m * 10^e lies in int's range, computed without leaving it.      *)
RECURSIVE FitsInt(_, _)
FitsInt(m, e) ==
    IF e = 0 THEN TRUE
    ELSE IF Abs(m) > MaxInt \div 10 THEN FALSE
    ELSE FitsInt(m * 10, e - 1)

RECURSIVE Scale(_, _)
Scale(m, e) == IF e = 0 THEN m ELSE Scale(m * 10, e - 1)

(* Mutant: rounds toward minus infinity.                                   *)
Float64ToInt_Floor(f) ==
    IF f.e < 0
    THEN IF -f.e >= NumDigits(MaxInt) THEN {0} ELSE {f.m \div Pow10(-f.e)}
    ELSE IF f.m = 0 THEN {0}
    ELSE IF FitsInt(f.m, f.e) THEN {Scale(f.m, f.e)}
    ELSE {MinInt, MaxInt}

(* The set of results the conversion may give.  A value int cannot hold    *)
(* converts without failing to an implementation-dependent int: the        *)
(* most negative int on amd64, the nearest bound on arm64.                 *)
Float64ToInt(f) ==
    IF f.e < 0
    THEN IF -f.e >= NumDigits(MaxInt) THEN {0} ELSE {Quo(f.m, Pow10(-f.e))}
    ELSE IF f.m = 0 THEN {0}
    ELSE IF FitsInt(f.m, f.e) THEN {Scale(f.m, f.e)}
    ELSE {MinInt, MaxInt}

---------------------------------------------------------------------------
(* String.ToApplicableValue and Int.ToApplicableValue                      *)

errNoReference ==
    [msg |-> "ValueFrom object is not nil but does not contain any non-nil pointer references",
     args |-> <<>>]

(* Mutant: the reference is looked at before the literal.                 *)
String_ToApplicableValue_RefFirst(s, dv) ==
    IF s.ValueFrom # <<>> /\ s.ValueFrom[1].ConfigMap # <<>>
    THEN getValueFromConfigMap(s.ValueFrom[1].ConfigMap[1], dv.FromConfigMaps)
    ELSE IF s.ValueFrom # <<>> /\ s.ValueFrom[1].KrakenResource # <<>>
    THEN getValueFromKrakenResource("string", s.ValueFrom[1].KrakenResource[1],
                                    dv.FromKrakenResources)
    ELSE IF s.Value # <<>> THEN Returned(s.Value, NoError)
    ELSE IF s.ValueFrom = <<>> THEN Returned(<<>>, NoError)
    ELSE Returned(<<>>, errNoReference)

String_ToApplicableValue(s, dv) ==
    IF s.Value # <<>> THEN Returned(s.Value, NoError)
    ELSE IF s.ValueFrom = <<>> THEN Returned(<<>>, NoError)
    ELSE IF s.ValueFrom[1].ConfigMap # <<>>
    THEN getValueFromConfigMap(s.ValueFrom[1].ConfigMap[1], dv.FromConfigMaps)
    ELSE IF s.ValueFrom[1].KrakenResource # <<>>
    THEN getValueFromKrakenResource("string", s.ValueFrom[1].KrakenResource[1],
                                    dv.FromKrakenResources)
    ELSE Returned(<<>>, errNoReference)

(* Mutant: the error of strconv.Atoi is dropped.                           *)
Int_ToApplicableValue_AtoiUnchecked(i, dv) ==
    IF i.Value # <<>> THEN {Returned(i.Value, NoError)}
    ELSE IF i.ValueFrom = <<>> THEN {Returned(<<>>, NoError)}
    ELSE IF i.ValueFrom[1].ConfigMap # <<>>
    THEN LET r == getValueFromConfigMap(i.ValueFrom[1].ConfigMap[1], dv.FromConfigMaps) IN
         IF ~IsNil(r.err) THEN {Returned(<<>>, r.err)}
         ELSE {Returned(<<Atoi(r.val[1]).n>>, NoError)}
    ELSE IF i.ValueFrom[1].KrakenResource # <<>>
    THEN LET r == getValueFromKrakenResource("float64", i.ValueFrom[1].KrakenResource[1],
                                             dv.FromKrakenResources) IN
         IF r.panic # "" THEN {r}
         ELSE IF ~IsNil(r.err) THEN {Returned(<<>>, r.err)}
         ELSE {Returned(<<v>>, NoError) : v \in Float64ToInt(r.val[1])}
    ELSE {Returned(<<>>, errNoReference)}

(* The set of outcomes: one, except for a float64 that int cannot hold.    *)
Int_ToApplicableValue(i, dv) ==
    IF i.Value # <<>> THEN {Returned(i.Value, NoError)}
    ELSE IF i.ValueFrom = <<>> THEN {Returned(<<>>, NoError)}
    ELSE IF i.ValueFrom[1].ConfigMap # <<>>
    THEN LET r == getValueFromConfigMap(i.ValueFrom[1].ConfigMap[1], dv.FromConfigMaps) IN
         IF ~IsNil(r.err) THEN {Returned(<<>>, r.err)}
         ELSE LET a == Atoi(r.val[1]) IN
              IF ~IsNil(a.err) THEN {Returned(<<>>, a.err)}
              ELSE {Returned(<<a.n>>, NoError)}
    ELSE IF i.ValueFrom[1].KrakenResource # <<>>
    THEN LET r == getValueFromKrakenResource("float64", i.ValueFrom[1].KrakenResource[1],
                                             dv.FromKrakenResources) IN
         IF r.panic # "" THEN {r}
         ELSE IF ~IsNil(r.err) THEN {Returned(<<>>, r.err)}
         ELSE {Returned(<<v>>, NoError) : v \in Float64ToInt(r.val[1])}
    ELSE {Returned(<<>>, errNoReference)}

---------------------------------------------------------------------------
(* Bounds of the inputs                                                    *)

(* Longest ConfigMap value enumerated over Alphabet.                       *)
MaxLen == 3

(* Largest mantissa and exponent of the enumerated JSON numbers.           *)
MaxMant == 39

MaxExp == 10

(* Longest dependency list AddToDependencyRequestSpec is applied to.       *)
MaxDeps == 2

---------------------------------------------------------------------------
(* Inputs: options                                                         *)

ConfigMapRefs == {[Name |-> n, Key |-> k] : n \in {"", "cfg"}, k \in {"", "port"}}

SecretRefs == {[Name |-> "sec", Key |-> "password"]}

KrakenResourceRefs ==
    {[Kind |-> k, Name |-> "web", Path |-> "replicas"] : k \in {"", "Deployment"}}

Ptrs(S) == {<<>>} \cup {<<x>> : x \in S}

ValueFroms ==
    [ConfigMap : Ptrs(ConfigMapRefs), Secret : Ptrs(SecretRefs),
     KrakenResource : Ptrs(KrakenResourceRefs)]

StringLiterals == {<<>>, <<"h", "i">>}

IntLiterals == {-7, 42}

Literals(type) == IF type = "String" THEN StringLiterals ELSE IntLiterals

Options(type) ==
    [type : {type}, Value : Ptrs(Literals(type)), ValueFrom : Ptrs(ValueFroms)]

(* Reference-only options with a single, fully named variant.              *)
ResolveOptions(type) ==
    [type : {type}, Value : {<<>>},
     ValueFrom : {<<[ConfigMap |-> <<[Name |-> "cfg", Key |-> "port"]>>,
                     Secret |-> <<>>, KrakenResource |-> <<>>]>>,
                  <<[ConfigMap |-> <<>>, Secret |-> <<>>,
                     KrakenResource |->
                         <<[Kind |-> "Deployment", Name |-> "web", Path |-> "replicas"]>>]>>}]

---------------------------------------------------------------------------
(* Inputs: dependent values                                                *)

Alphabet == {"0", "2", "4", "-", "+", " ", "a"}

ShortStrings == UNION {[1..k -> Alphabet] : k \in 0..MaxLen}

(* Numerals around the fast-path length and the bounds of int.             *)
LongStrings ==
    { <<"1","2","3","4","5","6","7","8","9">>,
      <<"-","1","2","3","4","5","6","7","8","9">>,
      <<"2","1","4","7","4","8","3","6","4","7">>,
      <<"2","1","4","7","4","8","3","6","4","8">>,
      <<"4","2","9","4","9","6","7","2","9","5">>,
      <<"4","2","9","4","9","6","7","2","9","6">>,
      <<"4","2","9","4","9","6","7","2","9","a">>,
      <<"4","2","9","4","9","6","7","2","9","6","a">>,
      <<"-","2","1","4","7","4","8","3","6","4","8">>,
      <<"-","2","1","4","7","4","8","3","6","4","9">>,
      <<"+","0","0","0","0","0","0","0","0","0","4","2">>,
      <<"0","0","0","0","0","0","0","0","0","0","4","a">>,
      <<"9","9","9","9","9","9","9","9","9","9","9","9">>,
      <<"8","0","8","0">> }

FewStrings == {<<>>, <<"4", "2">>, <<"a">>}

Number(m, e) == [tok |-> "number", s |-> <<>>, m |-> m, e |-> e]

Token(tok) == [tok |-> tok, s |-> <<>>, m |-> 0, e |-> 0]

OtherPayloads ==
    {[tok |-> "string", s |-> s, m |-> 0, e |-> 0] : s \in {<<>>, <<"h", "i">>, <<"3">>}}
    \cup {Token(k) : k \in {"true", "false", "list", "map", "null", "invalid"}}

FewOtherPayloads ==
    {[tok |-> "string", s |-> <<"h", "i">>, m |-> 0, e |-> 0]}
    \cup {Token(k) : k \in {"true", "list", "map", "null", "invalid"}}

NumberPayloads ==
    {Number(m, e) : m \in (-MaxMant..MaxMant) \cup {MaxInt, -MaxInt},
                    e \in (-2..MaxExp) \cup {400}}

FewPayloads == {Number(39, -1)} \cup FewOtherPayloads

ConfigMapBags(strs) ==
    {<<>>, "cfg" :> <<>>, "cfg" :> ("host" :> <<"a">>)}
    \cup {"cfg" :> ("port" :> s) : s \in strs}

KrakenResourceBags(payloads) ==
    {<<>>, "Deployment" :> <<>>, "Deployment" :> ("web" :> <<>>)}
    \cup {"Deployment" :> ("web" :> ("replicas" :> p)) : p \in payloads}

EmptyBag == [FromConfigMaps |-> <<>>, FromKrakenResources |-> <<>>]

Bags ==
    [FromConfigMaps : ConfigMapBags(FewStrings),
     FromKrakenResources : KrakenResourceBags(FewPayloads)]

ResolveBags ==
    [FromConfigMaps : ConfigMapBags(ShortStrings \cup LongStrings \cup FewStrings),
     FromKrakenResources : {<<>>}]
    \cup [FromConfigMaps : {<<>>},
          FromKrakenResources : KrakenResourceBags(NumberPayloads \cup OtherPayloads)]

ReflectKinds == {"string", "int"}

DependencyRequests ==
    { [KrakenResourceDependencies |-> <<>>, ConfigMapDependencies |-> <<>>],
      [KrakenResourceDependencies |->
           <<[Kind |-> "Deployment", Name |-> "db", Path |-> "port", ReflectKind |-> "int"]>>,
       ConfigMapDependencies |-> <<[Name |-> "cfg", Key |-> "port"]>>] }

---------------------------------------------------------------------------
(* The state machine.  opt is the option under use, dr the caller's        *)
(* dependency request, validated the result of the last Validate on opt,   *)
(* ret the last call: its name, arguments and outcome.                     *)

NoCall(d) ==
    [op |-> "none", dv |-> EmptyBag, kind |-> "", old |-> d, out |-> Returned(<<>>, NoError)]

Call(op, dv, kind, out) == [op |-> op, dv |-> dv, kind |-> kind, old |-> dr, out |-> out]

Running == ret.out.panic = ""

Init ==
    /\ \E type \in {"String", "Int"} : opt \in Options(type)
    /\ dr \in DependencyRequests
    /\ validated = "no"
    /\ ret = NoCall(dr)

InitResolve ==
    /\ \E type \in {"String", "Int"} : opt \in ResolveOptions(type)
    /\ dr \in DependencyRequests
    /\ validated = "no"
    /\ ret = NoCall(dr)

StringValidate ==
    /\ Running
    /\ opt.type = "String"
    /\ LET err == String_Validate(opt) IN
       /\ ret' = Call("Validate", EmptyBag, "", Returned(<<>>, err))
       /\ validated' = IF IsNil(err) THEN "ok" ELSE "failed"
    /\ UNCHANGED <<opt, dr>>

IntValidate ==
    /\ Running
    /\ opt.type = "Int"
    /\ LET err == Int_Validate(opt) IN
       /\ ret' = Call("Validate", EmptyBag, "", Returned(<<>>, err))
       /\ validated' = IF IsNil(err) THEN "ok" ELSE "failed"
    /\ UNCHANGED <<opt, dr>>

StringToApplicableValue(bags) ==
    /\ Running
    /\ opt.type = "String"
    /\ \E dv \in bags :
           ret' = Call("ToApplicableValue", dv, "", String_ToApplicableValue(opt, dv))
    /\ UNCHANGED <<opt, dr, validated>>

IntToApplicableValue(bags) ==
    /\ Running
    /\ opt.type = "Int"
    /\ \E dv \in bags :
           \E out \in Int_ToApplicableValue(opt, dv) :
               ret' = Call("ToApplicableValue", dv, "", out)
    /\ UNCHANGED <<opt, dr, validated>>

ConfigMapValidate ==
    /\ Running
    /\ opt.ValueFrom # <<>>
    /\ opt.ValueFrom[1].ConfigMap # <<>>
    /\ ret' = Call("ConfigMap.Validate", EmptyBag, "",
                   Returned(<<>>, ValueFromConfigMap_Validate(opt.ValueFrom[1].ConfigMap[1])))
    /\ UNCHANGED <<opt, dr, validated>>

SecretToSecretDependency ==
    /\ Running
    /\ opt.ValueFrom # <<>>
    /\ opt.ValueFrom[1].Secret # <<>>
    /\ ret' = Call("ToSecretDependency", EmptyBag, "",
                   ToSecretDependency(opt.ValueFrom[1].Secret[1]))
    /\ UNCHANGED <<opt, dr, validated>>

AddDependencies ==
    /\ Running
    /\ opt.ValueFrom # <<>>
    /\ Len(dr.KrakenResourceDependencies) < MaxDeps
    /\ Len(dr.ConfigMapDependencies) < MaxDeps
    /\ \E kind \in ReflectKinds :
           LET r == AddToDependencyRequestSpec(opt.ValueFrom[1], dr, kind) IN
           /\ dr' = r.dr
           /\ ret' = Call("AddToDependencyRequestSpec", EmptyBag, kind,
                          IF r.panic # "" THEN Panicked(r.panic)
                          ELSE Returned(<<>>, NoError))
    /\ UNCHANGED <<opt, validated>>

Next ==
    \/ StringValidate
    \/ IntValidate
    \/ StringToApplicableValue(Bags)
    \/ IntToApplicableValue(Bags)
    \/ ConfigMapValidate

NextDependencies ==
    \/ AddDependencies
    \/ SecretToSecretDependency

(* Resolution only reads its arguments, so a second call on the same      *)
(* option reaches nothing new: each option is resolved once per bag.       *)
NextResolve ==
    \/ ret.op = "none" /\ StringToApplicableValue(ResolveBags)
    \/ ret.op = "none" /\ IntToApplicableValue(ResolveBags)

Spec == Init /\ [][Next]_vars

SpecDependencies == Init /\ [][NextDependencies]_vars

SpecResolve == InitResolve /\ [][NextResolve]_vars

---------------------------------------------------------------------------
(* Vocabulary of the properties                                            *)

Resolved == ret.op = "ToApplicableValue"

Validated == ret.op = "Validate"

LiteralSet == opt.Value # <<>>

ReferenceSet == opt.ValueFrom # <<>>

ReferenceOnly == ~LiteralSet /\ ReferenceSet

(* The variants of a reference that are populated.                         *)
PopulatedVariants(vf) ==
    {v \in {"ConfigMap", "Secret", "KrakenResource"} : vf[v] # <<>>}

OnlyVariant(v) == ReferenceOnly /\ PopulatedVariants(opt.ValueFrom[1]) = {v}

(* Every required sub-field of every populated variant is non-empty.       *)
SubFieldsNonEmpty(vf) ==
    /\ vf.ConfigMap # <<>> => vf.ConfigMap[1].Name # "" /\ vf.ConfigMap[1].Key # ""
    /\ vf.Secret # <<>> => vf.Secret[1].Name # "" /\ vf.Secret[1].Key # ""
    /\ vf.KrakenResource # <<>> =>
           /\ vf.KrakenResource[1].Kind # ""
           /\ vf.KrakenResource[1].Name # ""
           /\ vf.KrakenResource[1].Path # ""

WellFormed(o) ==
    /\ (o.Value # <<>>) # (o.ValueFrom # <<>>)
    /\ o.Value = <<>> =>
           /\ Cardinality(PopulatedVariants(o.ValueFrom[1])) = 1
           /\ SubFieldsNonEmpty(o.ValueFrom[1])

---------------------------------------------------------------------------
(* C1: Validate() succeeds if and only if exactly one of literal and       *)
(* reference is set and, for a reference-only option, exactly one variant  *)
(* is populated with all its required sub-fields non-empty.  The code      *)
(* counts the populated variants and never looks at their sub-fields.      *)
C1_ValidateIffWellFormed ==
    Validated => (IsNil(ret.out.err) <=> WellFormed(opt))

(* C2: with only the Secret variant populated and no literal,              *)
(* ToApplicableValue aborts with a not-implemented panic and returns no    *)
(* error value.  The code returns the no-reference error.                  *)
C2_SecretAborts ==
    Resolved /\ OnlyVariant("Secret") =>
        /\ ret.out.panic # ""
        /\ ret.out.err # errNoReference

(* C4: an option whose literal is set resolves to exactly that literal, no *)
(* error, for every bag and whatever ValueFrom holds.                      *)
C4_LiteralReturned ==
    Resolved /\ LiteralSet => ret.out = Returned(opt.Value, NoError)

C4_Witness ==
    /\ Resolved
    /\ LiteralSet
    /\ ReferenceSet
    /\ opt.ValueFrom[1].Secret # <<>>
    /\ ret.dv = EmptyBag
    /\ ret.out.val = opt.Value

(* C5: AddToDependencyRequestSpec appends exactly one resource descriptor  *)
(* (Kind, Name, Path, the caller's kind) iff KrakenResource is populated   *)
(* and exactly one config descriptor (Name, Key) iff ConfigMap is          *)
(* populated, keeps the earlier descriptors as a prefix of each list, and  *)
(* panics exactly when Secret is populated.                                *)
C5_DependenciesAppended ==
    ret.op = "AddToDependencyRequestSpec" =>
        LET vf == opt.ValueFrom[1]
            kr == IF "KrakenResource" \in PopulatedVariants(vf)
                  THEN <<[Kind |-> vf.KrakenResource[1].Kind,
                          Name |-> vf.KrakenResource[1].Name,
                          Path |-> vf.KrakenResource[1].Path,
                          ReflectKind |-> ret.kind]>>
                  ELSE <<>>
            cm == IF "ConfigMap" \in PopulatedVariants(vf)
                  THEN <<[Name |-> vf.ConfigMap[1].Name, Key |-> vf.ConfigMap[1].Key]>>
                  ELSE <<>>
        IN  /\ dr.KrakenResourceDependencies = ret.old.KrakenResourceDependencies \o kr
            /\ dr.ConfigMapDependencies = ret.old.ConfigMapDependencies \o cm
            /\ (ret.out.panic = "Unimplemented") <=> ("Secret" \in PopulatedVariants(vf))
            /\ ret.out.panic \in {"", "Unimplemented"}

C5_Witness ==
    /\ ret.op = "AddToDependencyRequestSpec"
    /\ PopulatedVariants(opt.ValueFrom[1]) = {"ConfigMap", "Secret", "KrakenResource"}
    /\ ret.kind = "int"
    /\ Len(ret.old.KrakenResourceDependencies) = 1
    /\ Len(dr.KrakenResourceDependencies) = 2
    /\ Len(dr.ConfigMapDependencies) = 2
    /\ ret.out.panic # ""

(* C6: resolving a String option through a ConfigMap reference gives a     *)
(* missing-name error when the name is not in the bag, a different         *)
(* missing-key error when the name is there and the key is not, and        *)
(* exactly the stored string when both are there; nothing else.            *)
C6_ConfigMapLookup ==
    Resolved /\ opt.type = "String" /\ ReferenceOnly
             /\ "ConfigMap" \in PopulatedVariants(opt.ValueFrom[1]) =>
        LET ref == opt.ValueFrom[1].ConfigMap[1]
            cms == ret.dv.FromConfigMaps
            missingName == "ConfigMap %s does not exist in DependentValues"
            missingKey == "key %s does not exist in DependentValues ConfigMap %s"
        IN  /\ missingName # missingKey
            /\ ret.out.panic = ""
            /\ IF ref.Name \notin DOMAIN cms
               THEN /\ ret.out.val = <<>>
                    /\ ret.out.err.msg = missingName
                    /\ ret.out.err.args = <<ref.Name>>
               ELSE IF ref.Key \notin DOMAIN cms[ref.Name]
               THEN /\ ret.out.val = <<>>
                    /\ ret.out.err.msg = missingKey
                    /\ ret.out.err.args = <<ref.Key, ref.Name>>
               ELSE /\ ret.out.val = <<cms[ref.Name][ref.Key]>>
                    /\ IsNil(ret.out.err)

C6_Witness ==
    /\ Resolved /\ opt.type = "String" /\ OnlyVariant("ConfigMap")
    /\ "cfg" \in DOMAIN ret.dv.FromConfigMaps
    /\ DOMAIN ret.dv.FromConfigMaps["cfg"] = {"host"}
    /\ opt.ValueFrom[1].ConfigMap[1] = [Name |-> "cfg", Key |-> "port"]
    /\ ret.out.val = <<>>
    /\ ~IsNil(ret.out.err)

(* C9: Validate() fails with the both-set error when literal and reference *)
(* are both set, whatever the reference holds; fails with the different    *)
(* neither-set error when neither is; succeeds for a literal alone; and    *)
(* for a reference alone succeeds iff exactly one variant is populated,    *)
(* otherwise failing with an error that reports the number populated.      *)
C9_ValidateShapes ==
    Validated =>
        LET err == ret.out.err IN
        /\ errValidationBothValueAndRef # errValidationNoValueOrRef
        /\ LiteralSet /\ ReferenceSet => err = errValidationBothValueAndRef
        /\ ~LiteralSet /\ ~ReferenceSet => err = errValidationNoValueOrRef
        /\ LiteralSet /\ ~ReferenceSet => IsNil(err)
        /\ ReferenceOnly =>
               LET n == Cardinality(PopulatedVariants(opt.ValueFrom[1])) IN
               IF n = 1 THEN IsNil(err)
               ELSE /\ n \in {0, 2, 3}
                    /\ err.msg = "expected a single value reference but received %d"
                    /\ err.args = <<n>>

C9_Witness ==
    /\ Validated
    /\ ReferenceOnly
    /\ Cardinality(PopulatedVariants(opt.ValueFrom[1])) = 3
    /\ ret.out.err.args = <<3>>

(* C10: after a successful Validate(), a ToApplicableValue that returns    *)
(* gives a value or an error, never neither; a return of neither happens   *)
(* only for an option with no literal and no reference, which Validate()   *)
(* does not accept.                                                        *)
AbsentWithoutError ==
    Resolved /\ ret.out.panic = "" /\ ret.out.val = <<>> /\ IsNil(ret.out.err)

C10_WitnessAbsent == AbsentWithoutError /\ validated = "failed"

---------------------------------------------------------------------------
(* Vocabulary of the resolution properties                                 *)

(* The reference resolved is the ConfigMap one, and its name and key are   *)
(* in the bag.                                                             *)
ConfigMapEntryPresent ==
    /\ Resolved /\ OnlyVariant("ConfigMap")
    /\ LET ref == opt.ValueFrom[1].ConfigMap[1] IN
       /\ ref.Name \in DOMAIN ret.dv.FromConfigMaps
       /\ ref.Key \in DOMAIN ret.dv.FromConfigMaps[ref.Name]

StoredString ==
    LET ref == opt.ValueFrom[1].ConfigMap[1] IN ret.dv.FromConfigMaps[ref.Name][ref.Key]

(* The reference resolved is the KrakenResource one, and its kind, name    *)
(* and path are in the bag.                                                *)
ResourceEntryPresent ==
    /\ Resolved /\ OnlyVariant("KrakenResource")
    /\ LET ref == opt.ValueFrom[1].KrakenResource[1]
           krs == ret.dv.FromKrakenResources
       IN  /\ ref.Kind \in DOMAIN krs
           /\ ref.Name \in DOMAIN krs[ref.Kind]
           /\ ref.Path \in DOMAIN krs[ref.Kind][ref.Name]

Payload ==
    LET ref == opt.ValueFrom[1].KrakenResource[1] IN
    ret.dv.FromKrakenResources[ref.Kind][ref.Name][ref.Path]

(* The shape of a JSON text, and whether the text is well formed.          *)
JSONShape(raw) ==
    CASE raw.tok \in {"true", "false"} -> "bool"
      [] raw.tok \in {"string", "number", "list", "map", "null"} -> raw.tok
      [] OTHER -> "none"

(* The name under which an error reports a shape.                          *)
ShapeName(shape) ==
    CASE shape = "number" -> "float64"
      [] shape = "list" -> "slice"
      [] OTHER -> shape

ExpectedShape == IF opt.type = "String" THEN "string" ELSE "number"

ParsesSuccessfully(raw) ==
    /\ JSONShape(raw) # "none"
    /\ raw.tok = "number" => ~Float64Overflows(raw.m, raw.e)

(* C3: a payload that parses and whose shape is not the one the option's   *)
(* type expects resolves to a type-mismatch error naming both shapes,      *)
(* never to a value and never to a panic, for each of the six shapes.  The *)
(* code panics on null.                                                    *)
C3_TypeMismatchReturned ==
    /\ ResourceEntryPresent
    /\ ParsesSuccessfully(Payload)
    /\ JSONShape(Payload) # ExpectedShape
    => /\ ret.out.panic = ""
       /\ ret.out.val = <<>>
       /\ ret.out.err.msg = "provided value %s is of type %s; expected type %s"
       /\ ret.out.err.args[2] = ShapeName(JSONShape(Payload))
       /\ ret.out.err.args[3] = ShapeName(ExpectedShape)

---------------------------------------------------------------------------
(* Base-10 numerals, read independently of strconv                         *)

SignOf(s) == IF s # <<>> /\ s[1] = "-" THEN -1 ELSE 1

Unsigned(s) == IF s # <<>> /\ s[1] \in {"+", "-"} THEN Tail(s) ELSE s

(* An optional sign followed by one or more decimal digits.                *)
IsNumeral(s) ==
    /\ Unsigned(s) # <<>>
    /\ \A i \in 1..Len(Unsigned(s)) : Unsigned(s)[i] \in Digits

RECURSIVE StripZeros(_)
StripZeros(ds) ==
    IF Len(ds) > 1 /\ ds[1] = "0" THEN StripZeros(Tail(ds)) ELSE ds

(* Digit strings of equal length compare as their numbers do.              *)
RECURSIVE DigitsLeq(_, _)
DigitsLeq(a, b) ==
    IF a = <<>> THEN TRUE
    ELSE IF DigitVal(a[1]) # DigitVal(b[1]) THEN DigitVal(a[1]) < DigitVal(b[1])
    ELSE DigitsLeq(Tail(a), Tail(b))

(* The decimal digits of a natural number.                                 *)
RECURSIVE DigitsOf(_)
DigitsOf(n) ==
    LET last == CHOOSE c \in Digits : DigitVal(c) = n % 10 IN
    IF n < 10 THEN <<last>> ELSE Append(DigitsOf(n \div 10), last)

(* The digits of -MinInt, which is MaxInt + 1: MaxInt does not end in 9.   *)
MinIntDigits ==
    [DigitsOf(MaxInt) EXCEPT ![Len(DigitsOf(MaxInt))] =
        CHOOSE c \in Digits : DigitVal(c) = (MaxInt % 10) + 1]

(* The numeral denotes an integer int can hold.                            *)
NumeralFitsInt(s) ==
    LET ds == StripZeros(Unsigned(s))
        bound == IF SignOf(s) = -1 THEN MinIntDigits ELSE DigitsOf(MaxInt)
    IN  \/ Len(ds) < Len(bound)
        \/ Len(ds) = Len(bound) /\ DigitsLeq(ds, bound)

(* The integer a numeral that fits denotes: the sum of its signed digits   *)
(* times their powers of ten.                                              *)
RECURSIVE SignedSum(_, _)
SignedSum(ds, sign) ==
    IF ds = <<>> THEN 0
    ELSE sign * DigitVal(ds[1]) * Pow10(Len(ds) - 1) + SignedSum(Tail(ds), sign)

NumeralValue(s) == SignedSum(StripZeros(Unsigned(s)), SignOf(s))

(* C7, as stated: an Int option resolved through a ConfigMap entry returns *)
(* the integer the stored string denotes whenever the string is a base-10  *)
(* numeral, and an error and no value whenever it is not.  A numeral that  *)
(* int cannot hold is answered with a range error.                         *)
C7_EveryNumeralReturned ==
    ConfigMapEntryPresent /\ opt.type = "Int" =>
        IF IsNumeral(StoredString)
        THEN IsNil(ret.out.err) /\ ret.out.val # <<>>
        ELSE ~IsNil(ret.out.err) /\ ret.out.val = <<>>

(* C7, amended: the integer denoted is returned when the string is a       *)
(* base-10 numeral that fits int; every other string, a numeral out of     *)
(* int's range included, gives an error and no value.                      *)
C7_NumeralInRangeReturned ==
    ConfigMapEntryPresent /\ opt.type = "Int" =>
        /\ ret.out.panic = ""
        /\ IF IsNumeral(StoredString) /\ NumeralFitsInt(StoredString)
           THEN ret.out = Returned(<<NumeralValue(StoredString)>>, NoError)
           ELSE /\ ret.out.val = <<>>
                /\ ret.out.err \in {ErrSyntax(StoredString), ErrRange(StoredString)}
                /\ IsNumeral(StoredString) => ret.out.err = ErrRange(StoredString)

C7_Witness ==
    /\ ConfigMapEntryPresent /\ opt.type = "Int"
    /\ StoredString = <<"8", "0", "8", "0">>
    /\ ret.out.val = <<8080>>

C7_WitnessRange ==
    /\ ConfigMapEntryPresent /\ opt.type = "Int"
    /\ IsNumeral(StoredString)
    /\ ret.out.val = <<>>

---------------------------------------------------------------------------
(* Truncation toward zero, read independently of the conversion            *)

(* v is m * 10^e with its fraction dropped: for e >= 0 the number itself,  *)
(* for e < 0 the integer of the same sign whose distance below it in       *)
(* magnitude is less than one.                                             *)
IsTruncationOf(v, m, e) ==
    IF e >= 0
    THEN IF m = 0 THEN v = 0
         ELSE IF e >= NumDigits(MaxInt) THEN FALSE
         ELSE v % Pow10(e) = 0 /\ v \div Pow10(e) = m
    ELSE LET unit == IF -e >= NumDigits(MaxInt) THEN 0 ELSE Pow10(-e) IN
         IF unit = 0 THEN v = 0
         ELSE /\ (v > 0 => m > 0) /\ (v < 0 => m < 0)
              /\ Abs(v) <= Abs(m) \div unit
              /\ Abs(m) - Abs(v) * unit \in 0..(unit - 1)

(* Some int is the truncation of m * 10^e.                                 *)
TruncationFitsInt(m, e) ==
    \/ m = 0
    \/ e < 0
    \/ e < NumDigits(MaxInt) /\ Abs(m) <= MaxInt \div Pow10(e)

NumberResolved ==
    /\ ResourceEntryPresent /\ opt.type = "Int"
    /\ Payload.tok = "number"

C8_WitnessOutOfRange ==
    /\ NumberResolved
    /\ ~TruncationFitsInt(Payload.m, Payload.e)
    /\ ret.out.val # <<>>

====
